---- MODULE Spec2Model ----
(***************************************************************************)
(* Access/quota state machine of navigator-telegram-bot.                   *)
(*                                                                         *)
(* State: the two tables of telegram_bot/models.py (users, activation      *)
(* codes), the wall clock, and the handlers in flight, each with the rows  *)
(* its SQLAlchemy session has loaded.  A handler is cut at its database    *)
(* statements: a SELECT that loads a row, and the UPDATE/INSERT + COMMIT   *)
(* that writes it.  Between two statements of one handler the clock may    *)
(* advance, the process may stop, and (under SpecConc) another handler     *)
(* may run a statement of its own.                                         *)
(*                                                                         *)
(* Time is counted in ticks, TicksPerDay ticks to a day.  The audit        *)
(* timestamps created_at, updated_at, last_activation_at, last_request_at  *)
(* are written but never read by any code path and are left out.           *)
(***************************************************************************)
EXTENDS Integers, Sequences, FiniteSets, TLC

\* ---------------------------------------------------------------- bounds
MaxOps == 3
MaxTicks == 1
MaxTasks == 2
TicksPerDay == 2
MaxDays == 8

\* ------------------------------------------------------ program constants
PLAN_REQUESTS == 100
PLAN_DAYS == 30
\* issue_paid_code: max_attempts
MAX_ATTEMPTS == 10
REQUEST_WARNING_THRESHOLDS == <<30, 10, 3>>
DAY_WARNING_THRESHOLDS == <<7, 3, 1>>

\* Python's None, for the nullable columns expires_at, telegram_id, used_at.
None == -1

Day == TicksPerDay
PlanTicks == PLAN_DAYS * Day

\* ------------------------------------------------------------ input sets
Users == {1, 2}

DEMO100 == <<"D", "E", "M", "O", "1", "0", "0">>
BH95 == <<"b", "h", "_", "9", "5">>
BHX == <<"b", "h", "_", "x">>
\* A code as generate_activation_code draws it: 10 characters of its alphabet.
GENCODE == <<"K", "7", "M", "2", "Q", "9", "X", "4", "R", "T">>

\* Another one, which only the issuance endpoint comes to draw.
GENCODE2 == <<"P", "4", "W", "8", "H", "3", "N", "6", "Z", "C">>

StartCodes == {DEMO100, BH95, BHX, GENCODE}
IssueCodes == {GENCODE}
EndpointCodes == {GENCODE, GENCODE2}
Codes == StartCodes \cup IssueCodes \cup EndpointCodes

\* PAYMENT_API_SECRET as configured ("" for unset or empty), and the secret
\* field of a request.
NoSecret == ""
SECRET == "s3cret"
ExpectedSecrets == {NoSecret, SECRET}
SuppliedSecrets == {NoSecret, SECRET, "S3CRET"}
NoCodeArg == <<>>

\* The clock advances by one of these amounts.
TickSteps == {1, PlanTicks, PlanTicks + 1}

\* What the HTTP exchange of call_navigator can come to, and the outcomes the
\* model draws from.
AllOutcomes ==
    {"ok", "unconfigured", "timeout", "network", "non200", "badjson", "empty", "exception"}
BackendOutcomes == {"ok", "timeout", "empty"}

Tasks == 1..MaxTasks

\* Stored rows check_access is evaluated on: requests left around the warning
\* thresholds and around 0, expiry from just past to MaxDays days ahead.
EvalRemaining == {100, 31, 30, 29, 11, 10, 9, 4, 3, 2, 1, 0, -1}
EvalCapacities == {0, PLAN_REQUESTS}
EvalNow == Day
EvalExpiries == {None} \cup ((EvalNow - 1)..(EvalNow + (MaxDays + 1) * Day - 1))

\* ------------------------------------------------------------------ rows
\* A users row as User(telegram_id=...) is inserted: the column defaults.
NewUserRow == [present |-> TRUE, cap |-> 0, used |-> 0, life |-> 0, exp |-> None]
NoUserRow == [present |-> FALSE, cap |-> 0, used |-> 0, life |-> 0, exp |-> None]
NoCodeRow == [present |-> FALSE, owner |-> None, used_at |-> None]

VARIABLES
    now,       \* wall clock, in ticks
    users,     \* table users: telegram_id -> row
    codes,     \* table activation_codes: code -> row
    tasks,     \* per slot, the handler in flight or the last one finished: what its
               \* session has loaded (row, entry, at), what it answered (ok, msg,
               \* reason, warning), and the tables as they were when it started
    binds,     \* history: code -> user -> times the code's row was bound to the user
    grants,    \* history: code -> user -> plan activations the user got from the code
    ops,       \* handlers started and restarts so far
    ticks      \* clock advances so far

vars == <<now, users, codes, tasks, binds, grants, ops, ticks>>

IdleTask ==
    [kind |-> "idle", pc |-> "done", user |-> 0, code |-> NoCodeArg,
     row |-> NoUserRow, entry |-> NoCodeRow, at |-> 0,
     ok |-> "none", msg |-> "none", reason |-> "none", outcome |-> "none",
     warning |-> "none", consumed |-> FALSE,
     expected |-> NoSecret, supplied |-> NoSecret, attempt |-> 0, collided |-> {},
     preUsers |-> [u \in Users |-> NoUserRow],
     preCodes |-> [c \in Codes |-> NoCodeRow],
     preGrants |-> [u \in Users |-> 0]]

\* ------------------------------------------------------- pure functions
IsDigit(ch) == ch \in {"0", "1", "2", "3", "4", "5", "6", "7", "8", "9"}

\* int(s) of Python accepts an optional sign, then digits, single underscores
\* allowed between digits; it raises ValueError on anything else, "" included.
IsPyInt(s) ==
    LET body == IF Len(s) > 0 /\ s[1] \in {"+", "-"} THEN Tail(s) ELSE s
    IN  /\ Len(body) > 0
        /\ IsDigit(body[1])
        /\ IsDigit(body[Len(body)])
        /\ \A i \in 1..Len(body) :
              \/ IsDigit(body[i])
              \/ /\ body[i] = "_"
                 /\ i > 1 /\ i < Len(body)
                 /\ IsDigit(body[i - 1]) /\ IsDigit(body[i + 1])

\* code.startswith("bh_")
StartsWithBh(code) == Len(code) >= 3 /\ SubSeq(code, 1, 3) = <<"b", "h", "_">>

\* The warning loop firing at or below a threshold instead of exactly on it.
FirstAtMost(thresholds, v) ==
    IF \E i \in 1..Len(thresholds) : v <= thresholds[i] THEN v ELSE None

\* The first threshold of the list equal to v, or None.
FirstMatch(thresholds, v) ==
    IF \E i \in 1..Len(thresholds) : thresholds[i] = v THEN v ELSE None

\* check_access counting the instant of expiry as still valid.
AccessExpiredAfter(row, t) == row.exp # None /\ t > row.exp

\* check_access: access_expired = expires_at is set and now >= expires_at
AccessExpired(row, t) == row.exp # None /\ t >= row.exp

\* check_access reporting exhaustion ahead of expiry.
DenialReasonExhaustedFirst(row, t) ==
    IF row.cap = 0 THEN "no_package"
    ELSE IF row.cap - row.used <= 0 THEN "exhausted"
    ELSE "expired"

\* check_access: the reason chain of a denied evaluation.
DenialReason(row, t) ==
    IF row.cap = 0 THEN "no_package"
    ELSE IF AccessExpired(row, t) THEN "expired"
    ELSE IF row.cap - row.used <= 0 THEN "exhausted"
    ELSE "none"

\* (expires_at - now).days rounded up instead of down.
DaysRemainingRoundedUp(exp, t) == (exp - t + Day - 1) \div Day

\* (expires_at - now).days: whole days, rounded down.
DaysRemaining(exp, t) == (exp - t) \div Day

\* check_access on the loaded row, at clock reading t.
CheckAccess(row, t) ==
    LET remaining == row.cap - row.used
        access_expired == AccessExpired(row, t)
        requests_exhausted == remaining <= 0
        has_access == ~access_expired /\ ~requests_exhausted /\ row.cap > 0
        reason == IF has_access THEN "none" ELSE DenialReason(row, t)
        req_warn == has_access /\ FirstMatch(REQUEST_WARNING_THRESHOLDS, remaining) # None
        days_remaining == IF row.exp # None THEN DaysRemaining(row.exp, t) ELSE None
        day_warn == /\ has_access /\ row.exp # None /\ ~req_warn
                    /\ FirstMatch(DAY_WARNING_THRESHOLDS, days_remaining) # None
    IN  [has_access |-> has_access,
         remaining |-> remaining,
         reason |-> reason,
         warning |-> IF req_warn THEN "requests" ELSE IF day_warn THEN "days" ELSE "none"]

\* call_navigator: the text it returns for each outcome of the HTTP exchange.
CallNavigator(outcome) ==
    CASE outcome = "ok" -> "output"
      [] outcome = "unconfigured" -> "config_error"
      [] outcome = "non200" -> "server_status_error"
      [] outcome = "badjson" -> "unreadable_error"
      [] outcome = "empty" -> "empty_error"
      [] outcome = "timeout" -> "timeout_error"
      [] outcome = "network" -> "network_error"
      [] outcome = "exception" -> "technical_error"

\* The outcomes in which the backend gave no answer.
BackendFailed(outcome) == outcome \in AllOutcomes \ {"ok"}

\* ----------------------------------------------------------- scheduling
Free(t) == tasks[t].pc = "done"
NoneRunning == \A t \in Tasks : Free(t)
\* The slot a new handler takes under SpecConc: the lowest one never used.
Unused(t) == tasks[t].kind = "idle" /\ \A s \in Tasks : s < t => tasks[s].kind # "idle"

Bump(h, c, u) == [h EXCEPT ![c][u] = @ + 1]

\* db.commit() writing every column the handler assigned, changed or not.
FlushedAssigned(stored, loaded, assigned) == assigned

\* db.commit() of a loaded row: the UPDATE sets the columns whose value the
\* handler changed and leaves the others as the database has them.
Flushed(stored, loaded, assigned) == IF assigned = loaded THEN stored ELSE assigned

NewTask(kind, pc, u, c) ==
    [IdleTask EXCEPT !.kind = kind, !.pc = pc, !.user = u, !.code = c,
                     !.preUsers = users, !.preCodes = codes,
                     !.preGrants = IF c \in Codes THEN grants[c] ELSE @]

Init ==
    /\ now = 0
    /\ users = [u \in Users |-> NoUserRow]
    \* run_bot has run ensure_demo_code on the empty table
    /\ codes = [c \in Codes |-> IF c = DEMO100
                                 THEN [present |-> TRUE, owner |-> None, used_at |-> None]
                                 ELSE NoCodeRow]
    /\ tasks = [t \in Tasks |-> IdleTask]
    /\ binds = [c \in Codes |-> [u \in Users |-> 0]]
    /\ grants = [c \in Codes |-> [u \in Users |-> 0]]
    /\ ops = 0
    /\ ticks = 0

\* Rows a package leaves behind: activated at clock reading 0, with 99 or
\* all 100 of its requests consumed since.
StoredRow(n) ==
    [present |-> TRUE, cap |-> PLAN_REQUESTS, used |-> n, life |-> n, exp |-> PlanTicks]
StoredRows == {NoUserRow, StoredRow(PLAN_REQUESTS - 1), StoredRow(PLAN_REQUESTS)}

\* The database with user 1 unknown or near the end of a package.
InitStored ==
    /\ now = 0
    /\ \E r \in StoredRows : users = [u \in Users |-> IF u = 1 THEN r ELSE NoUserRow]
    /\ codes = [c \in Codes |-> IF c = DEMO100
                                 THEN [present |-> TRUE, owner |-> None, used_at |-> None]
                                 ELSE NoCodeRow]
    /\ tasks = [t \in Tasks |-> IdleTask]
    /\ binds = [c \in Codes |-> [u \in Users |-> 0]]
    /\ grants = [c \in Codes |-> [u \in Users |-> 0]]
    /\ ops = 0
    /\ ticks = 0

\* The database as some history of operations has left it for user 1, the
\* process just started.
\* The counter columns are nullable (Column(Integer, default=0)): a row
\* written by anything but this ORM mapping can hold NULL in any of them.
NullableCapacities == {None, 0, PLAN_REQUESTS}
NullableCounts == {None, 0, 1}

InitNull ==
    /\ now = 0
    /\ \E cap \in NullableCapacities, used \in NullableCounts, life \in NullableCounts :
          users = [u \in Users |->
                     IF u = 1
                     THEN [present |-> TRUE, cap |-> cap, used |-> used,
                           life |-> life, exp |-> None]
                     ELSE NoUserRow]
    /\ codes = [c \in Codes |-> IF c = DEMO100
                                 THEN [present |-> TRUE, owner |-> None, used_at |-> None]
                                 ELSE NoCodeRow]
    /\ tasks = [t \in Tasks |-> IdleTask]
    /\ binds = [c \in Codes |-> [u \in Users |-> 0]]
    /\ grants = [c \in Codes |-> [u \in Users |-> 0]]
    /\ ops = 0
    /\ ticks = 0

\* Stored rows a redemption can find: a user without a package, with or
\* without a request counted by a direct consume_request; a package unused,
\* one request short of exhausted, exhausted and overdrawn, each one expired,
\* expiring at this instant, and still running.
RedeemRows ==
    {NewUserRow, [NewUserRow EXCEPT !.used = 1, !.life = 1]}
        \cup {[present |-> TRUE, cap |-> PLAN_REQUESTS, used |-> n, life |-> n, exp |-> e] :
                 n \in {0, PLAN_REQUESTS - 1, PLAN_REQUESTS, PLAN_REQUESTS + 1},
                 e \in {EvalNow - 1, EvalNow, EvalNow + 1}}

InitRedeem ==
    /\ now = EvalNow
    /\ \E r \in RedeemRows : users = [u \in Users |-> IF u = 1 THEN r ELSE NoUserRow]
    /\ codes = [c \in Codes |-> IF c = DEMO100
                                 THEN [present |-> TRUE, owner |-> None, used_at |-> None]
                                 ELSE NoCodeRow]
    /\ tasks = [t \in Tasks |-> IdleTask]
    /\ binds = [c \in Codes |-> [u \in Users |-> 0]]
    /\ grants = [c \in Codes |-> [u \in Users |-> 0]]
    /\ ops = 0
    /\ ticks = 0

InitEval ==
    /\ now = EvalNow
    /\ \E cap \in EvalCapacities, rem \in EvalRemaining, e \in EvalExpiries :
          /\ cap - rem >= 0
          /\ users = [u \in Users |->
                        IF u = 1
                        THEN [present |-> TRUE, cap |-> cap, used |-> cap - rem,
                              life |-> cap - rem, exp |-> e]
                        ELSE NoUserRow]
    /\ codes = [c \in Codes |-> IF c = DEMO100
                                 THEN [present |-> TRUE, owner |-> None, used_at |-> None]
                                 ELSE NoCodeRow]
    /\ tasks = [t \in Tasks |-> IdleTask]
    /\ binds = [c \in Codes |-> [u \in Users |-> 0]]
    /\ grants = [c \in Codes |-> [u \in Users |-> 0]]
    /\ ops = 0
    /\ ticks = 0

\* ------------------------------------------------------------- handle_text
\* A text message of user u arrives (not one of the keyboard buttons).
StartText(t, u) ==
    /\ ops < MaxOps
    /\ tasks' = [tasks EXCEPT ![t] = NewTask("text", "check", u, NoCodeArg)]
    /\ ops' = ops + 1
    /\ UNCHANGED <<now, users, codes, binds, grants, ticks>>

\* get_or_create_user handing out a default row whatever is stored.
GetOrCreateUserReset(u) == NewUserRow

\* get_or_create_user: the row of u, inserted with the column defaults if absent.
GetOrCreateUser(u) == IF users[u].present THEN users[u] ELSE NewUserRow

\* remaining_requests = user.total_requests_in_plan - user.used_requests_in_plan:
\* a TypeError when either column is NULL.
CheckAccessRaises(row) == row.cap = None \/ row.used = None

\* used_requests_in_plan += 1; total_requests_all_time += 1: a TypeError when
\* either column is NULL.
ConsumeRaises(row) == row.used = None \/ row.life = None

\* handle_text without its "if not status.has_access: ... return".
TextCheckNoGate(t) ==
    LET u == tasks[t].user
        row == GetOrCreateUser(u)
        st == CheckAccess(row, now)
    IN  /\ tasks[t].kind = "text" /\ tasks[t].pc = "check"
        /\ users' = [users EXCEPT ![u] = row]
        /\ tasks' = [tasks EXCEPT ![t].reason = st.reason, ![t].row = row,
                                  ![t].pc = "backend"]
        /\ UNCHANGED <<now, codes, binds, grants, ops, ticks>>

\* check_access, then the denial reply or the waiting message.
TextCheck(t) ==
    LET u == tasks[t].user
        row == GetOrCreateUser(u)
        st == CheckAccess(row, now)
    IN  /\ tasks[t].kind = "text" /\ tasks[t].pc = "check"
        /\ users' = [users EXCEPT ![u] = row]
        /\ tasks' = IF CheckAccessRaises(row)
                    THEN [tasks EXCEPT ![t].row = row, ![t].ok = "raised",
                                       ![t].msg = "TypeError", ![t].pc = "done"]
                    ELSE [tasks EXCEPT
                            ![t].reason = st.reason,
                            ![t].row = row,
                            ![t].msg = IF st.has_access THEN "waiting" ELSE "denial",
                            ![t].pc = IF st.has_access THEN "backend" ELSE "done"]
        /\ UNCHANGED <<now, codes, binds, grants, ops, ticks>>

\* await call_navigator(user_text, telegram_id)
TextBackend(t) ==
    /\ tasks[t].kind = "text" /\ tasks[t].pc = "backend"
    /\ \E o \in BackendOutcomes :
          tasks' = [tasks EXCEPT ![t].outcome = o, ![t].msg = CallNavigator(o),
                                 ![t].pc = "consume"]
    /\ UNCHANGED <<now, users, codes, binds, grants, ops, ticks>>

\* consume_request called on its own, as any client of access.py may: the
\* function tests nothing before it writes.
StartConsume(t, u) ==
    /\ ops < MaxOps
    /\ tasks' = [tasks EXCEPT ![t] = NewTask("consume", "consume", u, NoCodeArg)]
    /\ ops' = ops + 1
    /\ UNCHANGED <<now, users, codes, binds, grants, ticks>>

\* consume_request charging the plan counter twice.
ConsumedUsedTwice(row) == row.used + 2

\* consume_request giving a request back.
ConsumedUsedRefund(row) == row.used - 1

\* consume_request charging only a user who has requests left.
ConsumedUsedIfLeft(row) == IF row.cap - row.used > 0 THEN row.used + 1 ELSE row.used

\* consume_request: used_requests_in_plan += 1 on the loaded row.
ConsumedUsed(row) == row.used + 1

\* consume_request: the SELECT of get_or_create_user.
TextConsumeRead(t) ==
    LET u == tasks[t].user
        row == GetOrCreateUser(u)
    IN  /\ tasks[t].kind \in {"text", "consume"} /\ tasks[t].pc = "consume"
        /\ users' = [users EXCEPT ![u] = row]
        /\ tasks' = [tasks EXCEPT ![t].row = row, ![t].pc = "commit"]
        /\ UNCHANGED <<now, codes, binds, grants, ops, ticks>>

\* consume_request: the two counters + 1, commit, refresh, check_access; then
\* the warning is appended and the reply sent.
TextConsumeCommit(t) ==
    LET u == tasks[t].user
        row == tasks[t].row
        written == [users[u] EXCEPT !.used = Flushed(@, row.used, ConsumedUsed(row)),
                                     !.life = Flushed(@, row.life, row.life + 1)]
        st == CheckAccess(written, now)
    IN  /\ tasks[t].kind \in {"text", "consume"} /\ tasks[t].pc = "commit"
        /\ users' = IF ConsumeRaises(row) THEN users ELSE [users EXCEPT ![u] = written]
        /\ tasks' = IF ConsumeRaises(row)
                    THEN [tasks EXCEPT ![t].ok = "raised", ![t].msg = "TypeError",
                                       ![t].pc = "done"]
                    ELSE IF CheckAccessRaises(written)
                    THEN [tasks EXCEPT ![t].consumed = TRUE, ![t].ok = "raised",
                                       ![t].msg = "TypeError", ![t].pc = "done"]
                    ELSE [tasks EXCEPT ![t].consumed = TRUE, ![t].warning = st.warning,
                                       ![t].ok = "true", ![t].pc = "done"]
        /\ UNCHANGED <<now, codes, binds, grants, ops, ticks>>

\* ------------------------------------------------- /start without a code
\* start_command with no argument: check_access, then the welcome text.
StartAccess(t, u) ==
    /\ ops < MaxOps
    /\ tasks' = [tasks EXCEPT ![t] = NewTask("access", "evaluate", u, NoCodeArg)]
    /\ ops' = ops + 1
    /\ UNCHANGED <<now, users, codes, binds, grants, ticks>>

\* check_access: get_or_create_user, the clock reading, the AccessStatus.
AccessEvaluate(t) ==
    LET u == tasks[t].user
        row == GetOrCreateUser(u)
        st == CheckAccess(row, now)
    IN  /\ tasks[t].kind = "access" /\ tasks[t].pc = "evaluate"
        /\ users' = [users EXCEPT ![u] = row]
        /\ tasks' = IF CheckAccessRaises(row)
                    THEN [tasks EXCEPT ![t].row = row, ![t].at = now, ![t].ok = "raised",
                                       ![t].msg = "TypeError", ![t].pc = "done"]
                    ELSE [tasks EXCEPT
                            ![t].row = row, ![t].at = now,
                            ![t].ok = IF st.has_access THEN "true" ELSE "false",
                            ![t].reason = st.reason, ![t].warning = st.warning,
                            ![t].msg = "welcome", ![t].pc = "done"]
        /\ UNCHANGED <<now, codes, binds, grants, ops, ticks>>

\* ------------------------------------------------------------------ /profile
StartProfile(t, u) ==
    /\ ops < MaxOps
    /\ tasks' = [tasks EXCEPT ![t] = NewTask("profile", "format", u, NoCodeArg)]
    /\ ops' = ops + 1
    /\ UNCHANGED <<now, users, codes, binds, grants, ticks>>

\* x if x is not None else 0
Coalesce(x) == IF x = None THEN 0 ELSE x

\* format_profile: get_or_create_user and check_access inside the try; any
\* exception gives the fallback text; otherwise the counters with 0 for NULL,
\* and the no-activation text when nothing was ever granted or used.
ProfileFormat(t) ==
    LET u == tasks[t].user
        row == GetOrCreateUser(u)
        shown == [row EXCEPT !.cap = Coalesce(@), !.used = Coalesce(@),
                             !.life = Coalesce(@)]
        has_ever_activated == shown.cap > 0 \/ shown.life > 0
    IN  /\ tasks[t].kind = "profile" /\ tasks[t].pc = "format"
        /\ users' = [users EXCEPT ![u] = row]
        /\ tasks' = [tasks EXCEPT
                       ![t].row = shown, ![t].ok = "true", ![t].pc = "done",
                       ![t].msg = IF CheckAccessRaises(row) THEN "profile_fallback"
                                  ELSE IF ~has_ever_activated THEN "profile_no_access"
                                  ELSE "profile"]
        /\ UNCHANGED <<now, codes, binds, grants, ops, ticks>>

\* ------------------------------------------------------------------ clock
Tick ==
    /\ ticks < MaxTicks
    /\ \E d \in TickSteps : now' = now + d
    /\ ticks' = ticks + 1
    /\ UNCHANGED <<users, codes, tasks, binds, grants, ops>>

\* ------------------------------------------------- /start <code>: dispatch
\* start_command with an argument: a code that starts with "bh_" goes to
\* activate_paid_code_bh, any other to activate_code.
StartCode(t, u, c) ==
    /\ ops < MaxOps
    /\ tasks' = [tasks EXCEPT ![t] =
                   IF StartsWithBh(c) THEN NewTask("paid", "parse", u, c)
                                      ELSE NewTask("generic", "read", u, c)]
    /\ ops' = ops + 1
    /\ UNCHANGED <<now, users, codes, binds, grants, ticks>>

\* ----------------------------------------------------------- activate_code
\* activate_code binding a code that another user holds.
GenericBranchRebind(entry, u) ==
    IF ~entry.present THEN "insert"
    ELSE IF entry.owner = None \/ entry.owner # u THEN "bind"
    ELSE "already_yours"

\* activate_code activating again a code that the user holds.
GenericBranchReactivate(entry, u) ==
    IF ~entry.present THEN "insert"
    ELSE IF entry.owner = None \/ entry.owner = u THEN "bind"
    ELSE "invalid_or_used"

\* What activate_code does with the ledger row it has loaded.
GenericBranch(entry, u) ==
    IF ~entry.present THEN "insert"
    ELSE IF entry.owner = None THEN "bind"
    ELSE IF entry.owner = u THEN "already_yours"
    ELSE "invalid_or_used"

\* The SELECT of the code's row, and the two refusals that follow from it.
GenericRead(t) ==
    LET u == tasks[t].user
        entry == codes[tasks[t].code]
        br == GenericBranch(entry, u)
    IN  /\ tasks[t].kind = "generic" /\ tasks[t].pc = "read"
        /\ tasks' = [tasks EXCEPT
                       ![t].entry = entry,
                       ![t].pc = IF br \in {"insert", "bind"} THEN br ELSE "done",
                       ![t].ok = IF br \in {"insert", "bind"} THEN "none" ELSE "false",
                       ![t].msg = IF br \in {"insert", "bind"} THEN "none" ELSE br]
        /\ UNCHANGED <<now, users, codes, binds, grants, ops, ticks>>

\* Unknown code: INSERT of the code already bound to the user, COMMIT.  The
\* column code is unique: the INSERT of a code another session has inserted
\* meanwhile raises IntegrityError, which nothing catches.
GenericInsert(t) ==
    LET u == tasks[t].user
        c == tasks[t].code
    IN  /\ tasks[t].kind = "generic" /\ tasks[t].pc = "insert"
        /\ IF codes[c].present
           THEN /\ tasks' = [tasks EXCEPT ![t].ok = "raised", ![t].msg = "IntegrityError",
                                          ![t].pc = "done"]
                /\ UNCHANGED <<codes, binds>>
           ELSE /\ codes' = [codes EXCEPT ![c] =
                               [present |-> TRUE, owner |-> u, used_at |-> now]]
                /\ binds' = Bump(binds, c, u)
                /\ tasks' = [tasks EXCEPT ![t].pc = "plan_read"]
        /\ UNCHANGED <<now, users, grants, ops, ticks>>

\* Known code with telegram_id NULL: UPDATE of the loaded row, COMMIT.
GenericBind(t) ==
    LET u == tasks[t].user
        c == tasks[t].code
    IN  /\ tasks[t].kind = "generic" /\ tasks[t].pc = "bind"
        /\ codes' = [codes EXCEPT ![c].owner = u, ![c].used_at = now]
        /\ binds' = Bump(binds, c, u)
        /\ tasks' = [tasks EXCEPT ![t].pc = "plan_read"]
        /\ UNCHANGED <<now, users, grants, ops, ticks>>

\* activate_or_extend_plan setting the capacity instead of adding to it.
GenericCapacityReset(cap) == PLAN_REQUESTS

\* activate_or_extend_plan: total_requests_in_plan += PLAN_REQUESTS
GenericCapacity(cap) == cap + PLAN_REQUESTS

\* activate_or_extend_plan granting requests without a term.
GenericExpiryUnlimited(old, t) == None

\* activate_or_extend_plan never moving the expiry back.
GenericExpiryKeepLater(old, t) == IF old # None /\ old > t + PlanTicks THEN old ELSE t + PlanTicks

\* activate_or_extend_plan extending from the stored expiry, as the paid path does.
GenericExpiryExtend(old, t) == IF old # None /\ old > t THEN old + PlanTicks ELSE t + PlanTicks

\* activate_or_extend_plan: expires_at = now + timedelta(days=PLAN_DAYS),
\* whatever the stored one (old) is.
GenericExpiry(old, t) == t + PlanTicks

\* activate_or_extend_plan: get_or_create_user and the clock reading.
GenericPlanRead(t) ==
    LET u == tasks[t].user
        row == GetOrCreateUser(u)
    IN  /\ tasks[t].kind = "generic" /\ tasks[t].pc = "plan_read"
        /\ users' = [users EXCEPT ![u] = row]
        /\ tasks' = [tasks EXCEPT ![t].row = row, ![t].at = now, ![t].pc = "plan_commit"]
        /\ UNCHANGED <<now, codes, binds, grants, ops, ticks>>

\* activate_or_extend_plan: total_requests_in_plan += PLAN_REQUESTS and the
\* new expires_at, COMMIT; (True, message) goes back to start_command.
GenericPlanCommit(t) ==
    LET u == tasks[t].user
        row == tasks[t].row
    IN  /\ tasks[t].kind = "generic" /\ tasks[t].pc = "plan_commit"
        /\ users' = [users EXCEPT
                       ![u].cap = Flushed(@, row.cap, GenericCapacity(row.cap)),
                       ![u].exp = Flushed(@, row.exp, GenericExpiry(row.exp, tasks[t].at))]
        /\ grants' = Bump(grants, tasks[t].code, u)
        /\ tasks' = [tasks EXCEPT ![t].ok = "true", ![t].msg = "activated",
                                  ![t].pc = "done"]
        /\ UNCHANGED <<now, codes, binds, ops, ticks>>

\* --------------------------------------------------- activate_paid_code_bh
\* The format check passing every code that starts with "bh_".
PaidFormatPrefixOnly(c) == IF ~StartsWithBh(c) THEN "bad_prefix" ELSE "valid"

\* The format check: "bh_" and then something int() accepts.
PaidFormat(c) ==
    IF ~StartsWithBh(c) THEN "bad_prefix"
    ELSE IF ~IsPyInt(SubSeq(c, 4, Len(c))) THEN "bad_number"
    ELSE "valid"

PaidParse(t) ==
    LET f == PaidFormat(tasks[t].code)
    IN  /\ tasks[t].kind = "paid" /\ tasks[t].pc = "parse"
        /\ tasks' = [tasks EXCEPT
                       ![t].pc = IF f = "valid" THEN "paid_read" ELSE "done",
                       ![t].ok = IF f = "valid" THEN "none" ELSE "false",
                       ![t].msg = IF f = "valid" THEN "none" ELSE f]
        /\ UNCHANGED <<now, users, codes, binds, grants, ops, ticks>>

\* get_or_create_user and the clock reading.
PaidRead(t) ==
    LET u == tasks[t].user
        row == GetOrCreateUser(u)
    IN  /\ tasks[t].kind = "paid" /\ tasks[t].pc = "paid_read"
        /\ users' = [users EXCEPT ![u] = row]
        /\ tasks' = [tasks EXCEPT ![t].row = row, ![t].at = now, ![t].pc = "paid_commit"]
        /\ UNCHANGED <<now, codes, binds, grants, ops, ticks>>

\* The renewal leaving a stored expiry where it is.
PaidExpiryKeep(old, t) == IF old # None THEN old ELSE t + PlanTicks

\* The renewal extending from the stored expiry even when it has passed.
PaidExpiryAlwaysExtend(old, t) == IF old # None THEN old + PlanTicks ELSE t + PlanTicks

\* The renewal's expiry: from the stored one if it is still ahead, else from now.
PaidExpiry(old, t) == IF old # None /\ old > t THEN old + PlanTicks ELSE t + PlanTicks

\* The renewal setting the capacity to one package.
PaidCapacityReset(cap) == PLAN_REQUESTS

\* The renewal: total_requests_in_plan += PLAN_REQUESTS
PaidCapacity(cap) == cap + PLAN_REQUESTS

\* activate_paid_code_bh treating every redemption as the first one.
PaidFirstActivationAlways(row) == TRUE

\* activate_paid_code_bh treating every redemption as a renewal.
PaidFirstActivationNever(row) == FALSE

\* is_first_activation = user.total_requests_in_plan == 0
PaidFirstActivation(row) == row.cap = 0

\* First activation (total_requests_in_plan == 0) or renewal, COMMIT.  The
\* activation_codes table is not read or written on this path.
PaidCommit(t) ==
    LET u == tasks[t].user
        row == tasks[t].row
        first == PaidFirstActivation(row)
    IN  /\ tasks[t].kind = "paid" /\ tasks[t].pc = "paid_commit"
        /\ users' = IF first
                    THEN [users EXCEPT
                            ![u].cap = Flushed(@, row.cap, PLAN_REQUESTS),
                            ![u].used = Flushed(@, row.used, 0),
                            ![u].exp = Flushed(@, row.exp, tasks[t].at + PlanTicks)]
                    ELSE [users EXCEPT
                            ![u].cap = Flushed(@, row.cap, PaidCapacity(row.cap)),
                            ![u].exp = Flushed(@, row.exp, PaidExpiry(row.exp, tasks[t].at))]
        /\ grants' = Bump(grants, tasks[t].code, u)
        /\ tasks' = [tasks EXCEPT ![t].ok = "true",
                                  ![t].msg = IF first THEN "paid_first" ELSE "paid_renewed",
                                  ![t].pc = "done"]
        /\ UNCHANGED <<now, codes, binds, ops, ticks>>

\* ----------------------------------------------- create_paid_activation_code
StartIssue(t, c) ==
    /\ ops < MaxOps
    /\ tasks' = [tasks EXCEPT ![t] = NewTask("issue", "issue_read", 0, c)]
    /\ ops' = ops + 1
    /\ UNCHANGED <<now, users, codes, binds, grants, ticks>>

\* ------------------------------------------------------------ issue_paid_code
\* A POST /issue_paid_code arrives at the payment API.
StartEndpoint(t, expected, supplied) ==
    /\ ops < MaxOps
    /\ tasks' = [tasks EXCEPT ![t] =
                   [NewTask("endpoint", "auth", 0, NoCodeArg)
                      EXCEPT !.expected = expected, !.supplied = supplied]]
    /\ ops' = ops + 1
    /\ UNCHANGED <<now, users, codes, binds, grants, ticks>>

\* The authorization without the test that a secret is configured.
EndpointAuthorizedUnconfigured(expected, supplied) ==
    IF supplied # expected THEN "invalid_secret" ELSE "authorized"

\* if not expected_secret: 500; if payload.secret != expected_secret: 401
EndpointAuthorized(expected, supplied) ==
    IF expected = NoSecret THEN "not_configured"
    ELSE IF supplied # expected THEN "invalid_secret"
    ELSE "authorized"

EndpointAuth(t) ==
    LET a == EndpointAuthorized(tasks[t].expected, tasks[t].supplied)
    IN  /\ tasks[t].kind = "endpoint" /\ tasks[t].pc = "auth"
        /\ tasks' = [tasks EXCEPT
                       ![t].pc = IF a = "authorized" THEN "generate" ELSE "done",
                       ![t].ok = IF a = "authorized" THEN "none" ELSE "false",
                       ![t].msg = IF a = "authorized" THEN "none" ELSE a]
        /\ UNCHANGED <<now, users, codes, binds, grants, ops, ticks>>

\* for attempt in range(max_attempts): raw_code = generate_activation_code().
\* A loop that ran out without the rejection goes on to activation_code.code
\* with activation_code = None.
EndpointGenerate(t) ==
    /\ tasks[t].kind = "endpoint" /\ tasks[t].pc = "generate"
    /\ IF tasks[t].attempt >= MAX_ATTEMPTS
       THEN tasks' = [tasks EXCEPT ![t].ok = "raised", ![t].msg = "AttributeError",
                                   ![t].pc = "done"]
       ELSE \E c \in EndpointCodes :
               tasks' = [tasks EXCEPT ![t].code = c, ![t].pc = "issue_read"]
    /\ UNCHANGED <<now, users, codes, binds, grants, ops, ticks>>

\* The collision handler never recognising the last attempt.
EndpointLastAttemptNever(attempt) == FALSE

\* except ValueError: if attempt == max_attempts - 1: raise HTTPException(500)
EndpointLastAttempt(attempt) == attempt = MAX_ATTEMPTS - 1

\* create_paid_activation_code inserting without looking.
IssueBranchNoLookup(entry) == "issue_insert"

\* if existing_code: raise ValueError
IssueBranch(entry) == IF entry.present THEN "duplicate" ELSE "issue_insert"

\* The SELECT; an existing code raises ValueError, which ends a direct call
\* and sends issue_paid_code to its next attempt, or to the rejection after
\* the last one.
IssueRead(t) ==
    LET entry == codes[tasks[t].code]
        br == IssueBranch(entry)
        retry == tasks[t].kind = "endpoint" /\ ~EndpointLastAttempt(tasks[t].attempt)
    IN  /\ tasks[t].kind \in {"issue", "endpoint"} /\ tasks[t].pc = "issue_read"
        /\ tasks' = [tasks EXCEPT
                       ![t].entry = entry,
                       ![t].pc = IF br = "issue_insert" THEN br
                                 ELSE IF retry THEN "generate" ELSE "done",
                       ![t].ok = IF br = "issue_insert" \/ retry THEN "none" ELSE "false",
                       ![t].msg = IF br = "issue_insert" \/ retry THEN "none"
                                  ELSE IF tasks[t].kind = "endpoint" THEN "collision_rejected"
                                  ELSE br,
                       ![t].attempt = IF br = "duplicate" /\ retry THEN @ + 1 ELSE @,
                       ![t].collided = IF br = "duplicate" /\ tasks[t].kind = "endpoint"
                                       THEN @ \cup {tasks[t].code} ELSE @]
        /\ UNCHANGED <<now, users, codes, binds, grants, ops, ticks>>

\* INSERT of the unredeemed code, COMMIT.
IssueInsert(t) ==
    LET c == tasks[t].code
    IN  /\ tasks[t].kind \in {"issue", "endpoint"} /\ tasks[t].pc = "issue_insert"
        /\ IF codes[c].present
           THEN /\ tasks' = [tasks EXCEPT ![t].ok = "raised", ![t].msg = "IntegrityError",
                                          ![t].pc = "done"]
                /\ UNCHANGED codes
           ELSE /\ codes' = [codes EXCEPT ![c] =
                               [present |-> TRUE, owner |-> None, used_at |-> None]]
                /\ tasks' = [tasks EXCEPT ![t].ok = "true", ![t].msg = "issued",
                                          ![t].pc = "done"]
        /\ UNCHANGED <<now, users, binds, grants, ops, ticks>>

\* ------------------------------------------------- run_bot, ensure_demo_code
\* ensure_demo_code resetting every redeemed code, not DEMO100 alone.
EnsureDemoCodeEveryCode(ledger) ==
    [c \in Codes |->
        IF c = DEMO100 \/ (ledger[c].present /\ ledger[c].owner # None)
        THEN [present |-> TRUE, owner |-> None, used_at |-> None]
        ELSE ledger[c]]

\* ensure_demo_code clearing the owner of a bound DEMO100 and keeping its
\* redemption time.
EnsureDemoCodeOwnerOnly(ledger) ==
    IF ~ledger[DEMO100].present
    THEN [ledger EXCEPT ![DEMO100] = [present |-> TRUE, owner |-> None, used_at |-> None]]
    ELSE [ledger EXCEPT ![DEMO100].owner = None]

\* ensure_demo_code on the ledger: DEMO100 created if absent, reset to
\* unredeemed if bound, left alone otherwise.
EnsureDemoCode(ledger) ==
    IF ~ledger[DEMO100].present \/ ledger[DEMO100].owner # None
    THEN [ledger EXCEPT ![DEMO100] = [present |-> TRUE, owner |-> None, used_at |-> None]]
    ELSE ledger

\* The bot process stops (whatever its handlers were doing) and run_bot
\* starts it again: init_db, ensure_demo_code, polling.  The payment API is
\* another process: a create_paid_activation_code in flight goes on.
Restart ==
    /\ ops < MaxOps
    /\ codes' = EnsureDemoCode(codes)
    /\ tasks' = [t \in Tasks |->
                   IF tasks[t].kind \in {"text", "consume", "access", "profile", "generic", "paid"}
                   THEN IdleTask ELSE tasks[t]]
    /\ ops' = ops + 1
    /\ UNCHANGED <<now, users, binds, grants, ticks>>

\* ------------------------------------------------------------ specifications
Start(t) ==
    \/ \E u \in Users : StartText(t, u)
    \/ \E u \in Users, c \in StartCodes : StartCode(t, u, c)
    \/ \E c \in IssueCodes : StartIssue(t, c)

Step(t) ==
    \/ TextCheck(t)
    \/ TextBackend(t)
    \/ TextConsumeRead(t)
    \/ TextConsumeCommit(t)
    \/ GenericRead(t)
    \/ GenericInsert(t)
    \/ GenericBind(t)
    \/ GenericPlanRead(t)
    \/ GenericPlanCommit(t)
    \/ PaidParse(t)
    \/ PaidRead(t)
    \/ PaidCommit(t)
    \/ IssueRead(t)
    \/ IssueInsert(t)

\* One operation at a time: a handler starts when none is running.
Next ==
    \/ NoneRunning /\ Start(1)
    \/ \E t \in Tasks : Step(t)
    \/ Tick
    \/ Restart

Spec == Init /\ [][Next]_vars

\* MaxTasks handlers, each started once, their statements interleaved in
\* every order (sessions of several threads or processes on one database).
NextConc ==
    \/ \E t \in Tasks : Unused(t) /\ Start(t)
    \/ \E t \in Tasks : Step(t)

SpecConc == Init /\ [][NextConc]_vars

\* As SpecConc, from the stored rows of InitStored.
SpecConcStored == InitStored /\ [][NextConc]_vars

\* The slot a new handler takes under SpecHandlers: the lowest free one.
LowestFree(t) == Free(t) /\ \A s \in Tasks : s < t => ~Free(s)

\* The demo code, which the ledger holds from the start, and a paid one.
HandlerCodes == {DEMO100, BH95}

\* The handlers of one user with up to MaxTasks of them in flight at once, a
\* slot taken again when its handler has finished.  Every code of
\* HandlerCodes that activate_code looks up is in the ledger, so its insert
\* branch is not taken.
NextHandlers ==
    \/ \E t \in Tasks : LowestFree(t) /\ StartText(t, 1)
    \/ \E t \in Tasks, c \in HandlerCodes : LowestFree(t) /\ StartCode(t, 1, c)
    \/ \E t \in Tasks : TextCheck(t)
    \/ \E t \in Tasks : TextBackend(t)
    \/ \E t \in Tasks : TextConsumeRead(t)
    \/ \E t \in Tasks : TextConsumeCommit(t)
    \/ \E t \in Tasks : GenericRead(t)
    \/ \E t \in Tasks : GenericBind(t)
    \/ \E t \in Tasks : GenericPlanRead(t)
    \/ \E t \in Tasks : GenericPlanCommit(t)
    \/ \E t \in Tasks : PaidParse(t)
    \/ \E t \in Tasks : PaidRead(t)
    \/ \E t \in Tasks : PaidCommit(t)

SpecHandlers == Init /\ [][NextHandlers]_vars

\* No handler of user u is running.
UserFree(u) == \A t \in Tasks : Free(t) \/ tasks[t].user # u

\* One handler per user at a time (single writer per row of users), the
\* handlers of different users interleaved statement by statement.
NextPerUser ==
    \/ \E t \in Tasks :
          /\ Unused(t)
          /\ \/ \E u \in Users : UserFree(u) /\ StartText(t, u)
             \/ \E u \in Users, c \in StartCodes : UserFree(u) /\ StartCode(t, u, c)
             \/ \E c \in IssueCodes : StartIssue(t, c)
    \/ \E t \in Tasks : Step(t)

SpecPerUser == InitStored /\ [][NextPerUser]_vars

\* The operations of access.py called one at a time in any order, by the
\* handlers or directly; the clock stands still.
NextApi ==
    \/ NoneRunning /\ Start(1)
    \/ NoneRunning /\ \E u \in Users : StartConsume(1, u)
    \/ NoneRunning /\ \E u \in Users : StartAccess(1, u)
    \/ \E t \in Tasks : Step(t)
    \/ \E t \in Tasks : AccessEvaluate(t)

SpecApi == Init /\ [][NextApi]_vars

\* The payment API and the bot on one database, one operation at a time.
NextIssue ==
    \/ NoneRunning /\ Start(1)
    \/ NoneRunning /\ \E e \in ExpectedSecrets, x \in SuppliedSecrets : StartEndpoint(1, e, x)
    \/ \E t \in Tasks : Step(t)
    \/ \E t \in Tasks : EndpointAuth(t)
    \/ \E t \in Tasks : EndpointGenerate(t)

SpecIssue == Init /\ [][NextIssue]_vars

\* The handlers and functions that read the counters, one at a time, on a
\* stored row whose counters may be NULL.
NextNull ==
    \/ NoneRunning /\ \E u \in Users : StartText(1, u)
    \/ NoneRunning /\ \E u \in Users : StartConsume(1, u)
    \/ NoneRunning /\ \E u \in Users : StartAccess(1, u)
    \/ NoneRunning /\ \E u \in Users : StartProfile(1, u)
    \/ \E t \in Tasks : TextCheck(t)
    \/ \E t \in Tasks : TextBackend(t)
    \/ \E t \in Tasks : TextConsumeRead(t)
    \/ \E t \in Tasks : TextConsumeCommit(t)
    \/ \E t \in Tasks : AccessEvaluate(t)
    \/ \E t \in Tasks : ProfileFormat(t)

SpecNull == InitNull /\ [][NextNull]_vars

\* The demo code, an unknown generic code, a paid code and a malformed one.
LifeCodes == StartCodes

\* The life of the package of user 1: that user's messages and direct
\* consume_request calls, the redemptions of every user, one at a time, and
\* the clock, from the stored rows of InitStored.
NextLife ==
    \/ NoneRunning /\ StartText(1, 1)
    \/ NoneRunning /\ \E u \in Users, c \in LifeCodes : StartCode(1, u, c)
    \/ NoneRunning /\ StartConsume(1, 1)
    \/ \E t \in Tasks : TextCheck(t)
    \/ \E t \in Tasks : TextBackend(t)
    \/ \E t \in Tasks : TextConsumeRead(t)
    \/ \E t \in Tasks : TextConsumeCommit(t)
    \/ \E t \in Tasks : GenericRead(t)
    \/ \E t \in Tasks : GenericInsert(t)
    \/ \E t \in Tasks : GenericBind(t)
    \/ \E t \in Tasks : GenericPlanRead(t)
    \/ \E t \in Tasks : GenericPlanCommit(t)
    \/ \E t \in Tasks : PaidParse(t)
    \/ \E t \in Tasks : PaidRead(t)
    \/ \E t \in Tasks : PaidCommit(t)
    \/ Tick

SpecLife == InitStored /\ [][NextLife]_vars

\* /start <code>, one at a time, on the stored rows of InitRedeem.
NextRedeem ==
    \/ NoneRunning /\ \E u \in Users, c \in StartCodes : StartCode(1, u, c)
    \/ \E t \in Tasks : GenericRead(t)
    \/ \E t \in Tasks : GenericInsert(t)
    \/ \E t \in Tasks : GenericBind(t)
    \/ \E t \in Tasks : GenericPlanRead(t)
    \/ \E t \in Tasks : GenericPlanCommit(t)
    \/ \E t \in Tasks : PaidParse(t)
    \/ \E t \in Tasks : PaidRead(t)
    \/ \E t \in Tasks : PaidCommit(t)

SpecRedeem == InitRedeem /\ [][NextRedeem]_vars

\* check_access evaluated on the stored rows of InitEval.
NextEval ==
    \/ NoneRunning /\ \E u \in Users : StartAccess(1, u)
    \/ \E t \in Tasks : AccessEvaluate(t)

SpecEval == InitEval /\ [][NextEval]_vars

\* ================================================================== claims
RECURSIVE SumOver(_, _)
SumOver(f, S) ==
    IF S = {} THEN 0
    ELSE LET x == CHOOSE y \in S : TRUE IN f[x] + SumOver(f, S \ {x})

Done(t, kind) == tasks[t].kind = kind /\ tasks[t].pc = "done"
KnownUnredeemed(entry) == entry.present /\ entry.owner = None

\* C1: a message whose backend call failed leaves the sender's plan_used and
\* lifetime_used as they were when the message arrived.
C1_FailedBackendConsumesNothing ==
    \A t \in Tasks :
        Done(t, "text") /\ BackendFailed(tasks[t].outcome) =>
            /\ users[tasks[t].user].used = tasks[t].preUsers[tasks[t].user].used
            /\ users[tasks[t].user].life = tasks[t].preUsers[tasks[t].user].life

\* C2: a message whose access check denied is answered with the denial
\* message; the backend is not called for it, consume_request is not run, and
\* plan_used and lifetime_used are what they were before it.
C2_DeniedMessageConsumesNothing ==
    \A t \in Tasks :
        Done(t, "text") /\ tasks[t].reason # "none" =>
            /\ tasks[t].msg = "denial"
            /\ tasks[t].outcome = "none"
            /\ ~tasks[t].consumed
            /\ users[tasks[t].user].used = tasks[t].preUsers[tasks[t].user].used
            /\ users[tasks[t].user].life = tasks[t].preUsers[tasks[t].user].life

\* A message of a user with a package, denied because the package has expired.
C2_Witness ==
    \E t \in Tasks :
        /\ Done(t, "text") /\ tasks[t].reason = "expired"
        /\ users[tasks[t].user].cap > 0

\* C3: of two users who redeem the same known, unredeemed generic code at
\* the same time, exactly one is told success and gets the plan activation;
\* the other is refused and gets none.
C3_ExactlyOneWinner ==
    \A s, t \in Tasks :
        /\ s # t /\ Done(s, "generic") /\ Done(t, "generic")
        /\ tasks[s].code = tasks[t].code /\ tasks[s].user # tasks[t].user
        /\ KnownUnredeemed(tasks[s].preCodes[tasks[s].code])
        /\ KnownUnredeemed(tasks[t].preCodes[tasks[t].code])
        => /\ {tasks[s].ok, tasks[t].ok} = {"true", "false"}
           /\ SumOver(grants[tasks[s].code], Users) = 1

\* C4: whatever the /start attempts, a code (generic or bh_<number>) has at
\* most one successful redemption, hence at most one plan activation.
C4_AtMostOneSuccessPerCode ==
    \A c \in Codes : SumOver(grants[c], Users) <= 1

C6_BoundImpliesGranted ==
    \A c \in Codes, u \in Users : binds[c][u] <= grants[c][u]

\* C7: a generic redemption succeeds exactly when the code was unknown or
\* known and unredeemed; after a success the code's row is bound to the user
\* with its redemption time set and plan_capacity has grown by PLAN_REQUESTS.
C7_GenericRedeemContract ==
    \A t \in Tasks :
        Done(t, "generic") =>
            LET u == tasks[t].user
                c == tasks[t].code
                before == tasks[t].preCodes[c]
            IN  /\ tasks[t].ok \in {"true", "false"}
                /\ tasks[t].ok = "true" <=> (~before.present \/ before.owner = None)
                /\ tasks[t].ok = "true" =>
                      /\ codes[c].present /\ codes[c].owner = u
                      /\ codes[c].used_at # None
                      /\ users[u].cap = tasks[t].preUsers[u].cap + PLAN_REQUESTS
                      /\ grants[c][u] = tasks[t].preGrants[u] + 1

\* A user who already had a package redeems an issued, unredeemed code.
C7_Witness ==
    \E t \in Tasks :
        /\ Done(t, "generic") /\ tasks[t].ok = "true"
        /\ KnownUnredeemed(tasks[t].preCodes[tasks[t].code])
        /\ tasks[t].code # DEMO100
        /\ tasks[t].preUsers[tasks[t].user].cap > 0

\* What an attempt that changes nothing leaves behind.
NothingChanged(t) ==
    /\ codes = tasks[t].preCodes
    /\ \A u \in Users :
          /\ users[u].cap = tasks[t].preUsers[u].cap
          /\ users[u].used = tasks[t].preUsers[u].used
          /\ users[u].life = tasks[t].preUsers[u].life
          /\ users[u].exp = tasks[t].preUsers[u].exp
    /\ grants[tasks[t].code] = tasks[t].preGrants

RedeemedByAnother(t) == \E a \in Users \ {tasks[t].user} : tasks[t].preGrants[a] > 0
BoundToAnother(t) ==
    /\ tasks[t].preCodes[tasks[t].code].present
    /\ tasks[t].preCodes[tasks[t].code].owner \in Users \ {tasks[t].user}

C10_GenericExpiryIsNowPlusPlanDays ==
    \A t \in Tasks :
        Done(t, "generic") /\ tasks[t].ok = "true" =>
            /\ users[tasks[t].user].exp = tasks[t].at + PLAN_DAYS * TicksPerDay
            /\ tasks[t].at <= now

\* The expiry stored before the redemption was later than now + PLAN_DAYS.
C10_Witness ==
    \E t \in Tasks :
        /\ Done(t, "generic") /\ tasks[t].ok = "true"
        /\ tasks[t].preUsers[tasks[t].user].exp > tasks[t].at + PLAN_DAYS * TicksPerDay

\* The later of two clock readings.
Later(a, b) == IF a >= b THEN a ELSE b

\* C11: a successful paid redemption by a user with plan_capacity > 0 leaves
\* expires_at at max(old expires_at, now) + PLAN_DAYS, plan_capacity grown by
\* PLAN_REQUESTS and plan_used as it was.
C11_PaidRenewalExtends ==
    \A t \in Tasks :
        LET u == tasks[t].user
            before == tasks[t].preUsers[u]
        IN  Done(t, "paid") /\ tasks[t].ok = "true" /\ before.cap > 0 =>
                /\ users[u].exp = Later(before.exp, tasks[t].at) + PLAN_DAYS * TicksPerDay
                /\ users[u].cap = before.cap + PLAN_REQUESTS
                /\ users[u].used = before.used

\* A renewal by a user whose package still had time to run.
C11_Witness ==
    \E t \in Tasks :
        /\ Done(t, "paid") /\ tasks[t].msg = "paid_renewed"
        /\ tasks[t].preUsers[tasks[t].user].exp > tasks[t].at
        /\ users[tasks[t].user].exp > tasks[t].at + PLAN_DAYS * TicksPerDay

\* A redemption of task t that succeeded, on the path of the given kind.
Redeemed(t, kind) == Done(t, kind) /\ tasks[t].ok = "true"

\* C12, as claimed: a successful redemption, generic or paid, leaves the
\* user's expires_at no earlier than it was before.
C12_RedemptionNeverShortens ==
    \A t \in Tasks :
        Redeemed(t, "generic") \/ Redeemed(t, "paid") =>
            users[tasks[t].user].exp >= tasks[t].preUsers[tasks[t].user].exp

\* C12, amended: a successful paid redemption leaves expires_at no earlier
\* than it was; a successful generic redemption leaves it at now + PLAN_DAYS,
\* which is earlier than before exactly when the stored expiry was later
\* than that.
C12_OnlyGenericResetShortens ==
    \A t \in Tasks :
        LET u == tasks[t].user
            before == tasks[t].preUsers[u].exp
            reset == tasks[t].at + PLAN_DAYS * TicksPerDay
        IN  /\ Redeemed(t, "paid") => users[u].exp >= before
            /\ Redeemed(t, "generic") =>
                  /\ users[u].exp = reset
                  /\ users[u].exp < before <=> before > reset

\* A generic redemption that shortened the validity period.
C12_Witness ==
    \E t \in Tasks :
        /\ Redeemed(t, "generic")
        /\ users[tasks[t].user].exp < tasks[t].preUsers[tasks[t].user].exp

\* C13: a paid redemption whose code is not "bh_" followed by a number is
\* refused with the invalid-format message and changes no stored state: no
\* users row is created or changed and no ledger row changes.
C13_MalformedPaidCodeChangesNothing ==
    \A t \in Tasks :
        LET c == tasks[t].code
        IN  Done(t, "paid") /\ ~(StartsWithBh(c) /\ IsPyInt(SubSeq(c, 4, Len(c)))) =>
                /\ tasks[t].ok = "false"
                /\ tasks[t].msg \in {"bad_prefix", "bad_number"}
                /\ users = tasks[t].preUsers
                /\ codes = tasks[t].preCodes
                /\ grants[c] = tasks[t].preGrants

\* A user with a package is refused on bh_x, a first-time user too.
C13_Witness ==
    \E t \in Tasks :
        /\ Done(t, "paid") /\ tasks[t].code = BHX /\ tasks[t].msg = "bad_number"
        /\ \E u \in Users : users[u].cap > 0
        /\ ~users[tasks[t].user].present

\* C14: a call of consume_request, with or without access, adds exactly 1 to
\* the user's plan_used and 1 to lifetime_used and leaves plan_capacity and
\* expires_at as they were.
C14_ConsumeAddsOne ==
    \A t \in Tasks :
        LET u == tasks[t].user
            before == tasks[t].preUsers[u]
        IN  Done(t, "consume") \/ (Done(t, "text") /\ tasks[t].consumed) =>
                /\ users[u].used = before.used + 1
                /\ users[u].life = before.life + 1
                /\ users[u].cap = before.cap
                /\ users[u].exp = before.exp

\* consume_request has charged a user who had no requests left.
C14_Witness ==
    \E t \in Tasks :
        /\ Done(t, "consume")
        /\ ~CheckAccess(tasks[t].preUsers[tasks[t].user], now).has_access
        /\ users[tasks[t].user].used > users[tasks[t].user].cap

\* C15, as claimed: in no step of any operation does a user's plan_used
\* decrease.
C15_UsedNeverDecreases ==
    [][\A u \in Users : users'[u].used >= users[u].used]_vars

\* C15, amended: plan_used decreases in one step only, the first paid
\* activation of a user (plan_capacity 0), which sets it to 0.
C15_UsedResetOnlyByFirstPaid ==
    [][\A u \in Users :
          users'[u].used < users[u].used =>
              /\ users[u].cap = 0 /\ users'[u].cap = PLAN_REQUESTS
              /\ users'[u].used = 0]_vars

\* A first paid activation has put plan_used back to 0 while lifetime_used
\* still counts the requests consumed before it.
C15_Witness ==
    \E t \in Tasks :
        /\ Done(t, "paid") /\ tasks[t].msg = "paid_first"
        /\ tasks[t].preUsers[tasks[t].user].used > 0
        /\ users[tasks[t].user].used = 0
        /\ users[tasks[t].user].life > 0

\* The plan activations user u has received, over all codes.
Activations(u) == SumOver([c \in Codes |-> grants[c][u]], Codes)

\* C16: plan_capacity of a user is PLAN_REQUESTS times the successful
\* redemptions of that user: it never decreases, nothing else changes it, and
\* each redemption (generic, paid first activation, paid renewal) adds
\* exactly PLAN_REQUESTS.
C16_CapacityCountsRedemptions ==
    \A u \in Users : users[u].cap = PLAN_REQUESTS * Activations(u)

\* One user after a generic redemption, a first paid activation and a renewal.
C16_Witness ==
    \E u \in Users :
        /\ grants[DEMO100][u] = 1 /\ grants[BH95][u] = 2
        /\ users[u].cap = 3 * PLAN_REQUESTS

\* The whole days from clock reading n to expiry e are exactly d.
WholeDays(e, n, d) == d * TicksPerDay <= e - n /\ e - n < (d + 1) * TicksPerDay

\* C17: check_access grants access exactly when plan_capacity > 0, requests
\* are left, and expires_at is None or still ahead; at now = expires_at it
\* denies.
C17_HasAccessIff ==
    \A t \in Tasks :
        LET r == tasks[t].row
            n == tasks[t].at
        IN  Done(t, "access") =>
                (tasks[t].ok = "true" <=>
                    /\ r.cap > 0
                    /\ r.cap - r.used > 0
                    /\ (r.exp = None \/ n < r.exp))

\* Evaluated at the instant of expiry, with requests left: denied.
C17_Witness ==
    \E t \in Tasks :
        /\ Done(t, "access") /\ tasks[t].ok = "false"
        /\ tasks[t].row.exp = tasks[t].at
        /\ tasks[t].row.cap > 0 /\ tasks[t].row.cap - tasks[t].row.used > 0

\* C18: a denied evaluation reports one reason: no package when
\* plan_capacity is 0, whatever expires_at and plan_used are; otherwise
\* expired when now >= expires_at, exhausted or not; otherwise exhausted.  A
\* granted one reports none.
C18_DenialPriority ==
    \A t \in Tasks :
        LET r == tasks[t].row
            n == tasks[t].at
        IN  Done(t, "access") =>
                tasks[t].reason =
                    IF tasks[t].ok = "true" THEN "none"
                    ELSE IF r.cap = 0 THEN "no_package"
                    ELSE IF r.exp # None /\ n >= r.exp THEN "expired"
                    ELSE "exhausted"

\* A package both expired and exhausted is reported as expired.
C18_Witness ==
    \E t \in Tasks :
        /\ Done(t, "access") /\ tasks[t].reason = "expired"
        /\ tasks[t].row.cap > 0 /\ tasks[t].row.used >= tasks[t].row.cap

\* C19: the request-count warning is produced exactly when access is granted
\* and the requests left are 30, 10 or 3.
C19_RequestWarningExact ==
    \A t \in Tasks :
        Done(t, "access") =>
            (tasks[t].warning = "requests" <=>
                /\ tasks[t].ok = "true"
                /\ tasks[t].row.cap - tasks[t].row.used \in {30, 10, 3})

\* 10 requests left of 100: the warning is produced.
C19_Witness ==
    \E t \in Tasks :
        /\ Done(t, "access") /\ tasks[t].warning = "requests"
        /\ tasks[t].row.cap = 100 /\ tasks[t].row.used = 90

\* C20: a denied evaluation has no warning; the days warning is produced
\* exactly when access is granted, no request-count warning fired, and the
\* whole days to expires_at are 7, 3 or 1.
C20_OneWarningDaysFloor ==
    \A t \in Tasks :
        LET r == tasks[t].row
            n == tasks[t].at
        IN  Done(t, "access") =>
                /\ tasks[t].ok = "false" => tasks[t].warning = "none"
                /\ tasks[t].warning \in {"none", "requests", "days"}
                /\ tasks[t].warning = "days" <=>
                      /\ tasks[t].ok = "true"
                      /\ r.cap - r.used \notin {30, 10, 3}
                      /\ r.exp # None
                      /\ \E d \in {7, 3, 1} : WholeDays(r.exp, n, d)

\* The days warning with a part of a day beyond the whole days.
C20_Witness ==
    \E t \in Tasks :
        /\ Done(t, "access") /\ tasks[t].warning = "days"
        /\ (tasks[t].row.exp - tasks[t].at) % TicksPerDay # 0

\* C21: with one handler per user at a time and consume_request only after a
\* granted check, plan_used <= plan_capacity for every user in every state,
\* whatever other users' handlers do in between.
C21_UsedWithinCapacity ==
    \A u \in Users : users[u].used <= users[u].cap

\* The last request of a package has been consumed while another user's
\* handler was running.
C21_Witness ==
    \E t \in Tasks :
        /\ Done(t, "text") /\ tasks[t].consumed
        /\ users[tasks[t].user].used = users[tasks[t].user].cap
        /\ \E s \in Tasks : tasks[s].user \in Users \ {tasks[t].user} /\ ~Free(s)

\* C22: with up to MaxTasks messages of one user in flight at once, plan_used
\* exceeds plan_capacity by at most MaxTasks - 1.
C22_OverAdmissionBounded ==
    \A u \in Users : users[u].used - users[u].cap <= MaxTasks - 1

\* Two messages passed the check on the last request and both were charged.
C22_Witness ==
    \E u \in Users :
        /\ users[u].used = users[u].cap + 1
        /\ \A t \in Tasks : Done(t, "text") /\ tasks[t].consumed /\ tasks[t].user = u

\* The operations of user u that have completed: consume_request calls, and
\* successful redemptions.
Consumed(u) ==
    Cardinality({t \in Tasks : Done(t, "text") /\ tasks[t].consumed /\ tasks[t].user = u})
Redemptions(u) ==
    Cardinality({t \in Tasks : /\ Redeemed(t, "generic") \/ Redeemed(t, "paid")
                               /\ tasks[t].user = u})

\* C23: whatever the interleaving, after N completed consume_request calls of
\* a user plan_used and lifetime_used have grown by N, and plan_capacity by
\* PLAN_REQUESTS for every completed redemption.  (Slot 1 is the first
\* handler started: its snapshot is the stored state.)
C23_NoLostUpdate ==
    tasks[1].kind # "idle" =>
        \A u \in Users :
            LET stored == tasks[1].preUsers[u]
            IN  /\ users[u].used = stored.used + Consumed(u)
                /\ users[u].life = stored.life + Consumed(u)
                /\ users[u].cap = stored.cap + PLAN_REQUESTS * Redemptions(u)

Unredeemed == [present |-> TRUE, owner |-> None, used_at |-> None]

\* C24: create_paid_activation_code on a code the ledger holds, redeemed or
\* not, fails as a duplicate and leaves the ledger as it was; on a code the
\* ledger does not hold it inserts the code unredeemed and changes no other
\* ledger row; no entitlement changes either way.
C24_IssuanceContract ==
    \A t \in Tasks :
        LET c == tasks[t].code
        IN  Done(t, "issue") =>
                /\ users = tasks[t].preUsers
                /\ IF tasks[t].preCodes[c].present
                   THEN /\ tasks[t].ok = "false" /\ tasks[t].msg = "duplicate"
                        /\ codes = tasks[t].preCodes
                   ELSE /\ tasks[t].ok = "true"
                        /\ codes = [tasks[t].preCodes EXCEPT ![c] = Unredeemed]

\* Issuing a code that a user has redeemed: refused, the owner kept.
C24_Witness ==
    \E t \in Tasks :
        /\ Done(t, "issue") /\ tasks[t].msg = "duplicate"
        /\ codes[tasks[t].code].owner \in Users

\* C25: issue_paid_code changes the ledger only when the supplied secret
\* equals the configured one and one is configured; on a mismatch or with
\* no secret configured the request is rejected and the ledger unchanged.
C25_SecretGatesIssuance ==
    \A t \in Tasks :
        Done(t, "endpoint") =>
            IF tasks[t].expected # NoSecret /\ tasks[t].supplied = tasks[t].expected
            THEN tasks[t].msg \notin {"not_configured", "invalid_secret"}
            ELSE /\ tasks[t].ok = "false"
                 /\ tasks[t].msg = IF tasks[t].expected = NoSecret THEN "not_configured"
                                    ELSE "invalid_secret"
                 /\ codes = tasks[t].preCodes
                 /\ users = tasks[t].preUsers

\* No secret configured and an empty secret supplied: rejected.
C25_Witness ==
    \E t \in Tasks :
        /\ Done(t, "endpoint") /\ tasks[t].ok = "false"
        /\ tasks[t].expected = NoSecret /\ tasks[t].supplied = NoSecret

\* C26: an authorized request ends within MAX_ATTEMPTS attempts: with the
\* first generated code the ledger did not hold, that code inserted
\* unredeemed and nothing else; or, every one of MAX_ATTEMPTS codes
\* colliding, with the rejection and nothing inserted.
C26_BoundedAttempts ==
    \A t \in Tasks :
        tasks[t].kind = "endpoint" =>
            /\ tasks[t].attempt < MAX_ATTEMPTS
            /\ \A c \in tasks[t].collided : tasks[t].preCodes[c].present
            /\ Done(t, "endpoint") /\ tasks[t].msg \notin {"not_configured", "invalid_secret"} =>
                  \/ /\ tasks[t].ok = "true"
                     /\ ~tasks[t].preCodes[tasks[t].code].present
                     /\ codes = [tasks[t].preCodes EXCEPT ![tasks[t].code] = Unredeemed]
                  \/ /\ tasks[t].ok = "false" /\ tasks[t].msg = "collision_rejected"
                     /\ tasks[t].attempt = MAX_ATTEMPTS - 1
                     /\ codes = tasks[t].preCodes

\* All MAX_ATTEMPTS codes collided: rejected.
C26_Witness ==
    \E t \in Tasks :
        /\ Done(t, "endpoint") /\ tasks[t].msg = "collision_rejected"
        /\ tasks[t].collided = EndpointCodes

\* C27, as claimed: check_access, called for any user, changes no row of the
\* users table and no row of the ledger.
C27_CheckAccessWritesNothing ==
    \A t \in Tasks :
        Done(t, "access") =>
            users = tasks[t].preUsers /\ codes = tasks[t].preCodes

\* C27, amended: check_access changes no ledger row and no existing user
\* row; for a user who has no row it inserts one, with the counters 0 and
\* expires_at None, and that is its only write.
C27_CheckAccessOnlyCreates ==
    \A t \in Tasks :
        Done(t, "access") =>
            /\ codes = tasks[t].preCodes
            /\ \A v \in Users :
                  users[v] = IF v = tasks[t].user /\ ~tasks[t].preUsers[v].present
                             THEN NewUserRow
                             ELSE tasks[t].preUsers[v]

\* check_access has created the row of a user never seen before, while the
\* other user's package is as it was.
C27_Witness ==
    \E t \in Tasks :
        /\ Done(t, "access")
        /\ ~tasks[t].preUsers[tasks[t].user].present
        /\ users[tasks[t].user] = NewUserRow
        /\ \E v \in Users \ {tasks[t].user} : users[v].cap > 0

\* C28: for a new user, (a) a message sent before any redemption is denied
\* with the reason "no package" and consumes nothing; (b) the redemption of a
\* generic code the ledger did not hold leaves plan_capacity = PLAN_REQUESTS
\* and expires_at = now + PLAN_DAYS; (c) the message sent right after it is
\* admitted, and once its backend call has succeeded plan_used = 1,
\* lifetime_used = 1 and no warning is attached.
C28_NewUserScenario ==
    \A t \in Tasks :
        LET u == tasks[t].user
            before == tasks[t].preUsers[u]
        IN  /\ Done(t, "text") /\ ~before.present =>
                  /\ tasks[t].reason = "no_package" /\ tasks[t].msg = "denial"
                  /\ tasks[t].outcome = "none" /\ ~tasks[t].consumed
                  /\ users[u].used = 0 /\ users[u].life = 0
            /\ Done(t, "generic") /\ ~tasks[t].preCodes[tasks[t].code].present
                  /\ before.cap = 0 =>
                  /\ tasks[t].ok = "true"
                  /\ users[u].cap = PLAN_REQUESTS
                  /\ users[u].exp = tasks[t].at + PLAN_DAYS * TicksPerDay
            /\ Done(t, "text") /\ before.present /\ before.cap = PLAN_REQUESTS
                  /\ before.used = 0 /\ before.life = 0
                  /\ before.exp = now + PLAN_DAYS * TicksPerDay =>
                  /\ tasks[t].reason = "none" /\ tasks[t].outcome # "none"
                  /\ ~BackendFailed(tasks[t].outcome) =>
                        /\ users[u].used = 1 /\ users[u].life = 1
                        /\ tasks[t].warning = "none"

\* The third step of the scenario: the user's row was created by a denied
\* message, the unknown code redeemed, and the message after it answered.
C28_Witness ==
    \E t \in Tasks :
        LET u == tasks[t].user
        IN  /\ Done(t, "text") /\ ops = 3
            /\ ~BackendFailed(tasks[t].outcome) /\ tasks[t].consumed
            /\ tasks[t].preUsers[u].used = 0
            /\ tasks[t].preUsers[u].exp = now + PLAN_DAYS * TicksPerDay
            /\ grants[GENCODE][u] = 1 /\ codes[GENCODE].owner = u
            /\ users[u].cap = PLAN_REQUESTS /\ users[u].used = 1

\* C29: a successful paid redemption by a user with plan_capacity = 0 takes
\* the first-activation path and leaves plan_capacity = PLAN_REQUESTS,
\* plan_used = 0 and expires_at = now + PLAN_DAYS, whatever plan_used and
\* expires_at were; with plan_capacity > 0 it takes the renewal path.
C29_PaidFirstActivationPath ==
    \A t \in Tasks :
        LET u == tasks[t].user
            before == tasks[t].preUsers[u]
        IN  Done(t, "paid") /\ tasks[t].ok = "true" =>
                IF before.cap = 0
                THEN /\ tasks[t].msg = "paid_first"
                     /\ users[u].cap = PLAN_REQUESTS
                     /\ users[u].used = 0
                     /\ users[u].exp = tasks[t].at + PLAN_DAYS * TicksPerDay
                ELSE tasks[t].msg = "paid_renewed"

\* A first activation of a user whose row already counted a request.
C29_Witness ==
    \E t \in Tasks :
        /\ Done(t, "paid") /\ tasks[t].msg = "paid_first"
        /\ tasks[t].preUsers[tasks[t].user].used = 1
        /\ users[tasks[t].user].exp = tasks[t].at + PLAN_DAYS * TicksPerDay
        /\ users[tasks[t].user].cap = PLAN_REQUESTS

\* C30, as claimed: with a NULL in a counter column of the stored row, no
\* operation raises: format_profile returns a text, check_access and
\* consume_request return a status, and no exception reaches handle_text.
C30_NullCounterNeverRaises ==
    \A t \in Tasks : tasks[t].ok # "raised"

\* The step in which the bot process is started again.
RestartStep ==
    /\ ops' = ops + 1
    /\ tasks' = [t \in Tasks |->
                   IF tasks[t].kind \in {"text", "consume", "access", "profile", "generic", "paid"}
                   THEN IdleTask ELSE tasks[t]]

\* C31: after ensure_demo_code has run, DEMO100 is in the ledger with no
\* owner and no redemption time; running it again at once changes nothing;
\* and the run changed no other ledger row and no user's entitlement.
C31_EnsureDemoCodeIdempotent ==
    [][RestartStep =>
          /\ codes'[DEMO100] = Unredeemed
          /\ EnsureDemoCode(codes') = codes'
          /\ \A c \in Codes \ {DEMO100} : codes'[c] = codes[c]
          /\ users' = users]_vars

\* ensure_demo_code has cleared a DEMO100 that a user had redeemed; that
\* user's package is still there.
C31_Witness ==
    /\ codes[DEMO100] = Unredeemed
    /\ \E u \in Users : binds[DEMO100][u] > 0 /\ users[u].cap > 0

\* C32: for every user expires_at is None exactly when plan_capacity is 0,
\* and plan_capacity is 0 exactly when the user has completed no redemption;
\* so a message is denied with the reason "no package" exactly when its
\* sender has completed no redemption.
C32_ExpiryIffCapacity ==
    /\ \A u \in Users :
          /\ users[u].exp = None <=> users[u].cap = 0
          /\ users[u].cap = 0 <=> Activations(u) = 0
    /\ \A t \in Tasks :
          Done(t, "text") =>
              (tasks[t].reason = "no_package" <=> Activations(tasks[t].user) = 0)

\* A user with a package whose message is denied, for another reason than
\* "no package", while the other user's message is denied for that one.
C32_Witness ==
    \E t \in Tasks, v \in Users :
        /\ Done(t, "text") /\ tasks[t].reason = "expired"
        /\ users[tasks[t].user].exp # None /\ Activations(tasks[t].user) = 1
        /\ users[v].present /\ users[v].exp = None /\ users[v].cap = 0

\* The commit of a paid first activation by task t.
PaidFirstCommitStep(t) ==
    /\ tasks[t].kind = "paid" /\ tasks[t].pc = "paid_commit"
    /\ tasks'[t].pc = "done"
    /\ tasks[t].row.cap = 0

\* C33: through the bot's handlers, several of one user in flight at once,
\* plan_used > 0 implies plan_capacity > 0 in every state; and the commit of
\* a paid first activation leaves plan_used as it finds it, so its
\* plan_used = 0 never lowers a plan_used that is not 0.
C33_UsedImpliesCapacity ==
    /\ [](\A u \in Users : users[u].used > 0 => users[u].cap > 0)
    /\ [][\A t \in Tasks :
            PaidFirstCommitStep(t) =>
                users'[tasks[t].user].used = users[tasks[t].user].used]_vars

\* A paid first activation has committed for a user whose plan_used another
\* redemption and a message had raised to 1 in the meantime.
C33_Witness ==
    \E t \in Tasks :
        /\ Done(t, "paid") /\ tasks[t].msg = "paid_first"
        /\ tasks[t].row.used = 0
        /\ users[tasks[t].user].used = 1

\* C34: right after a successful redemption, generic or paid, by a user whose
\* plan_used did not exceed plan_capacity before it, check_access grants
\* that user access with at least PLAN_REQUESTS requests left, whether the
\* user had no package, an expired one or an exhausted one.
C34_RedemptionRestoresAccess ==
    \A t \in Tasks :
        LET u == tasks[t].user
            before == tasks[t].preUsers[u]
            st == CheckAccess(users[u], now)
        IN  /\ tasks[t].kind \in {"generic", "paid"} /\ tasks[t].pc = "done"
            /\ tasks[t].ok = "true" /\ before.used <= before.cap
            => st.has_access /\ st.remaining >= PLAN_REQUESTS

\* A paid renewal by a user whose package was both exhausted and expired.
C34_Witness ==
    \E t \in Tasks :
        LET before == tasks[t].preUsers[tasks[t].user]
        IN  /\ Done(t, "paid") /\ tasks[t].msg = "paid_renewed"
            /\ before.used = before.cap /\ before.exp # None /\ before.exp < now
            /\ CheckAccess(users[tasks[t].user], now).has_access

\* check_access, evaluated now, denies user u.
Denied(u) == ~CheckAccess(users[u], now).has_access

\* C35: a user whom check_access denies stays denied in every step that is
\* not the completion of a successful redemption by that user: the clock,
\* consumption, refused redemptions and the other users' operations do not
\* restore access.
C35_DeniedUntilRedemption ==
    [][\A u \in Users :
          Denied(u) /\ ~Denied(u)' => Activations(u)' = Activations(u) + 1]_vars

\* A user with an exhausted package, denied before a refused redemption and
\* a clock step, is denied after them.
C35_Witness ==
    \E t \in Tasks :
        LET u == tasks[t].user
        IN  /\ tasks[t].kind \in {"generic", "paid"} /\ tasks[t].pc = "done"
            /\ tasks[t].ok = "false" /\ ticks = 1
            /\ tasks[t].preUsers[u].cap > 0
            /\ tasks[t].preUsers[u].used >= tasks[t].preUsers[u].cap
            /\ Denied(u)

\* C36: for every user lifetime_used >= plan_used in every state, whatever
\* the sequence of consumptions and redemptions.
C36_LifetimeAtLeastUsed ==
    \A u \in Users : users[u].life >= users[u].used

\* After consumptions and a paid first activation the all-time counter is
\* ahead of the plan counter, which has counted again since.
C36_Witness ==
    \E t \in Tasks :
        LET u == tasks[t].user
        IN  /\ Done(t, "consume") /\ users[u].cap = PLAN_REQUESTS
            /\ users[u].used = 1 /\ users[u].life = 2

\* C37: for every code in the ledger the owner is None exactly when the
\* redemption time is None: issuance, registration on first redemption,
\* binding and the DEMO100 reset write the two fields together.
C37_OwnerIffRedeemedAt ==
    \A c \in Codes :
        codes[c].present => (codes[c].owner = None <=> codes[c].used_at = None)

\* The ledger holds a code registered by its redemption, with owner and
\* time, and a DEMO100 that was redeemed and then cleared of both.
C37_Witness ==
    /\ codes[GENCODE].owner # None /\ codes[GENCODE].used_at # None
    /\ \E u \in Users : binds[DEMO100][u] > 0
    /\ codes[DEMO100].owner = None /\ codes[DEMO100].used_at = None

====
